---- MODULE Spec2Model ----
(***************************************************************************)
(* LiteSDCard driver (litex/soc/software/liblitesdcard/sdcard.c) as a      *)
(* state machine.                                                          *)
(*                                                                         *)
(* The driver is one thread that busy-polls the controller.  A state of    *)
(* the model is the driver blocked in one of its polling loops (or at the  *)
(* exit test of a bounded retry loop, or outside every call); one step is  *)
(* one poll that the hardware answers, followed by the straight-line code  *)
(* up to the next poll.  The hardware is the environment: every value the  *)
(* driver reads from it is drawn with \E.                                  *)
(***************************************************************************)
EXTENDS Integers, Sequences, FiniteSets, TLC

VARIABLES
    cfg,            \* build switches: [cmd18, cmd25], fixed for a behaviour
    card,           \* "responsive" | "silent" (command engine never completes)
    sdcardstatus,   \* static DSTATUS sdcardstatus                  (line 559)
    pc,             \* where the driver is blocked; "idle" outside every call
    call,           \* the call in progress, or the last one once pc = "idle"
    args,           \* the arguments it was called with
    ret,            \* value returned by the last completed call; -1 for no
                    \* value (a call in progress, or a void function)
    initret,        \* value returned by sdcard_init within the call; -1 if
                    \* it has not returned
    everok,         \* history: some sdcard_init has returned 1
    timeout,        \* uint16_t timeout of sdcard_init
    attempts,       \* history: iterations begun of the bounded loop in progress
    rca,            \* uint16_t rca of sdcard_init
    xfer,           \* block, count, buf, nblocks of sdcard_read / sdcard_write
    regs,           \* the DMA engines' enable registers as last written
    trace,          \* register accesses of the call, in order; a repeated
                    \* attempt replaces the attempt it repeats
    retried         \* history: the call has repeated an attempt (a fold)

vars == <<cfg, card, sdcardstatus, pc, call, args, ret, initret, everok, timeout,
          attempts, rca, xfer, regs, trace, retried>>

-----------------------------------------------------------------------------
(* Bounds of the model and the inputs drawn for the calls.                 *)

MaxCount == 3

Drives == {0, 1}
Blocks == {0, 100}
Counts == {0, 1, MaxCount}
\* 0x40000000
Bufs == {<<16384, 0>>}
Events == 0 .. 15
\* Response word 3: 0, 0xFFFF, 0x80000000, 0xABCD0000, 0xABCD1234, 0xABCDFFFF.
R3Values == {<<0, 0>>, <<0, 65535>>, <<32768, 0>>, <<43981, 0>>, <<43981, 4660>>,
             <<43981, 65535>>}

-----------------------------------------------------------------------------
(* Constants of the program.                                               *)

\* A 32-bit word is the pair of its 16-bit halves <<bits 31..16, bits 15..0>>
\* (TLC's integers are narrower than uint32_t).
Half == 65536
U32(n) == <<(n \div Half) % Half, n % Half>>
Add32(a, b) ==
    LET lo == a[2] + b[2]
    IN  <<(a[1] + b[1] + (lo \div Half)) % Half, lo % Half>>
\* (512 * n) as uint32_t
Mul512(n) == <<(n \div 128) % Half, (n % 128) * 512>>
\* (x << 16) converted to uint32_t, x a uint16_t: the compiler shifts the
\* promoted int as a 32-bit pattern.
Shl16(x) == <<x % Half, 0>>

SDCARD_CLK_FREQ_INIT == 400000
SDCARD_CLK_FREQ == 25000000
CONFIG_CPU_HAS_DMA_BUS == FALSE

\* generated/soc.h and the headers sdcard.h, diskio.h are not part of src/.
CONFIG_CLOCK_FREQUENCY == 100000000
STA_NOINIT == 1
RES_OK == 0
SD_PHY_SPEED_4X == 1
SD_SWITCH_SWITCH == 1
SD_GROUP_ACCESSMODE == 0
SD_SPEED_SDR25 == 1
SD_OK == "SD_OK"
SD_CRCERROR == "SD_CRCERROR"
SD_TIMEOUT == "SD_TIMEOUT"

\* rsp operand of sdcard_send_command: (transfer << 5) | response kind.
Rsp(transfer, kind) == <<transfer, kind>>
RESPONSE_NONE == Rsp("NONE", "NONE")
RESPONSE_SHORT == Rsp("NONE", "SHORT")
RESPONSE_LONG == Rsp("NONE", "LONG")
RESPONSE_SHORT_BUSY == Rsp("NONE", "SHORT_BUSY")
READ_RESPONSE_SHORT == Rsp("READ", "SHORT")
WRITE_RESPONSE_SHORT == Rsp("WRITE", "SHORT")

IDLE_RETRIES_Short == 1000 - 1

\* sdcard_init: for (timeout=1000; timeout>0; timeout--), both loops
IDLE_RETRIES == 1000

OCR_RETRIES_Short == 1000 - 1

\* sdcard_init line 398, the NegotiateOCR loop
OCR_RETRIES == 1000

-----------------------------------------------------------------------------
(* Register accesses.                                                      *)

W(reg, val) == <<"w", reg, val>>
\* A read, with what the driver makes of the value: the result for an event
\* register, word 3 for the response registers, bit 0 for a done register.
R(reg, val) == <<"r", reg, val>>

Bit(v, k) == (v \div (2 ^ k)) % 2

\* The registers kept in the state: the enable registers of the two DMA
\* engines as last written, and for each engine whether its done register has
\* been read as set since 1 was last written to its enable register (0 while
\* the transfer that write started has not been observed done).  Every other
\* register the driver writes is never read back by it; each of its writes is
\* in the trace.
RegsReset == [block2mem_dma_enable |-> 0, mem2block_dma_enable |-> 0,
              block2mem_dma_done |-> 0, mem2block_dma_done |-> 0]

\* The done register of the engine whose enable register is reg.
DoneOf(reg) ==
    IF reg = "block2mem_dma_enable" THEN "block2mem_dma_done"
    ELSE "mem2block_dma_done"

\* The kept registers after one access.
Store1(rg, a) ==
    IF a[1] = "w" /\ a[2] \in {"block2mem_dma_enable", "mem2block_dma_enable"}
    THEN IF a[3] = 1
         THEN [rg EXCEPT ![a[2]] = 1, ![DoneOf(a[2])] = 0]
         ELSE [rg EXCEPT ![a[2]] = a[3]]
    ELSE IF a[1] = "r" /\ a[2] \in {"block2mem_dma_done", "mem2block_dma_done"}
    THEN [rg EXCEPT ![a[2]] = a[3]]
    ELSE rg

RECURSIVE Store(_, _)
\* The kept registers after the accesses of acc, in order.
Store(rg, acc) ==
    IF acc = <<>> THEN rg
    ELSE Store(Store1(rg, Head(acc)), Tail(acc))

\* event & 0x1
EventDone(ev) == Bit(ev, 0) = 1

CmdResult_CrcFirst(ev) ==
    IF Bit(ev, 3) = 1 THEN SD_CRCERROR
    ELSE IF Bit(ev, 2) = 1 THEN SD_TIMEOUT
    ELSE SD_OK

\* sdcard_wait_cmd_done, after the loop: the value returned for event ev.
CmdResult(ev) ==
    IF Bit(ev, 2) = 1 THEN SD_TIMEOUT
    ELSE IF Bit(ev, 3) = 1 THEN SD_CRCERROR
    ELSE SD_OK

\* sdcard_wait_data_done, after the loop.
DataResult(ev) ==
    IF Bit(ev, 2) = 1 THEN SD_TIMEOUT
    ELSE IF Bit(ev, 3) = 1 THEN SD_CRCERROR
    ELSE SD_OK

\* The values a poll of the command-event register can return.
CmdEvents == IF card = "silent" THEN {ev \in Events : ~EventDone(ev)} ELSE Events

\* What sdcard_wait_cmd_done / sdcard_wait_data_done can return once a poll
\* has found the done flag.
CmdResults == {CmdResult(ev) : ev \in {e \in CmdEvents : EventDone(e)}}
DataResults == {DataResult(ev) : ev \in {e \in Events : EventDone(e)}}

DIV_ROUND_UP_Floor(n, d) == n \div d

DIV_ROUND_UP(n, d) == (n + d - 1) \div d

Min(a, b) == IF a < b THEN a ELSE b
Max(a, b) == IF a > b THEN a ELSE b

\* divider written by sdcard_set_clk_freq(clk_freq, show).
Divider(clk_freq) ==
    LET divider == IF clk_freq # 0
                   THEN DIV_ROUND_UP(CONFIG_CLOCK_FREQUENCY, clk_freq)
                   ELSE 256
    IN  Min(Max(divider, 2), 256)

\* The same for a clk_freq of 2^31 or more, given as a word w: in 32-bit
\* unsigned long arithmetic n + d - 1 wraps, and the quotient by d is 1 if
\* the wrapped sum reaches d and 0 if not.
DividerWide(w) ==
    LET sum == Add32(U32(CONFIG_CLOCK_FREQUENCY - 1), w)
        divider == IF sum[1] > w[1] \/ (sum[1] = w[1] /\ sum[2] >= w[2])
                   THEN 1 ELSE 0
    IN  Min(Max(divider, 2), 256)

sdcard_set_clk_freq(clk_freq) == <<W("clocker_divider", Divider(clk_freq))>>

sdcard_send_command(arg, cmd, rsp) ==
    <<W("cmd_argument", arg), W("cmd_command", <<cmd, rsp>>), W("cmd_send", 1)>>

sdcard_go_idle == sdcard_send_command(U32(0), 0, RESPONSE_NONE)
sdcard_send_ext_csd == sdcard_send_command(U32(426), 8, RESPONSE_SHORT)
sdcard_app_cmd(a) == sdcard_send_command(Shl16(a), 55, RESPONSE_SHORT)
sdcard_app_send_op_cond(hcs) ==
    \* 0x10ff8000, | 0x60000000 if hcs
    sdcard_send_command(<<4351 + (IF hcs # 0 THEN 24576 ELSE 0), 32768>>,
                        41, RESPONSE_SHORT_BUSY)
sdcard_all_send_cid == sdcard_send_command(U32(0), 2, RESPONSE_LONG)
sdcard_set_relative_address_AsSendCid ==
    sdcard_send_command(U32(0), 10, RESPONSE_LONG)

sdcard_set_relative_address == sdcard_send_command(U32(0), 3, RESPONSE_SHORT)
sdcard_send_cid(a) == sdcard_send_command(Shl16(a), 10, RESPONSE_LONG)
sdcard_send_csd_AsSendCid(a) == sdcard_send_command(Shl16(a), 10, RESPONSE_LONG)

sdcard_send_csd(a) == sdcard_send_command(Shl16(a), 9, RESPONSE_LONG)
sdcard_select_card(a) ==
    sdcard_send_command(Shl16(a), 7, RESPONSE_SHORT_BUSY)
sdcard_app_set_bus_width == sdcard_send_command(U32(2), 6, RESPONSE_SHORT)
sdcard_app_set_blocklen(blocklen) ==
    sdcard_send_command(U32(blocklen), 16, RESPONSE_SHORT)
sdcard_stop_transmission == sdcard_send_command(U32(0), 12, RESPONSE_SHORT_BUSY)
sdcard_set_block_count(blockcnt) ==
    sdcard_send_command(U32(blockcnt), 23, RESPONSE_SHORT)

\* arg of sdcard_switch: (mode << 31) | 0xffffff, the group's nibble replaced.
SwitchArg(mode, group, value) ==
    LET hi0 == (mode % 2) * 32768 + 255
        lo0 == 65535
        Put(h, g) == h - ((h \div (16 ^ g)) % 16) * (16 ^ g)
                       + (value % 16) * (16 ^ g)
    IN  IF group < 4 THEN <<hi0, Put(lo0, group)>>
        ELSE <<Put(hi0, group - 4), lo0>>

\* sdcard_switch up to its first command (the retry loop is SwitchCmdDone).
sdcard_switch(mode, group, value) ==
    <<W("block_length", 64), W("block_count", U32(1))>>
    \o sdcard_send_command(SwitchArg(mode, group, value), 6, READ_RESPONSE_SHORT)

\* sdcard_app_send_scr up to its first command.
sdcard_app_send_scr ==
    <<W("block_length", 8), W("block_count", U32(1))>>
    \o sdcard_send_command(U32(0), 51, READ_RESPONSE_SHORT)

sdcard_decode_rca_Low(r3) == r3[2]

\* sdcard_decode_rca: (r[3] >> 16) & 0xffff
sdcard_decode_rca(r3) == r3[1] % Half

-----------------------------------------------------------------------------
(* Steps.                                                                  *)

ArgsNone == [drv |-> 0, block |-> 0, count |-> 0, buf |-> U32(0)]
XferNone == [block |-> U32(0), count |-> 0, buf |-> U32(0), nblocks |-> 0]

Init ==
    /\ cfg \in [cmd18 : BOOLEAN, cmd25 : BOOLEAN]
    /\ card \in {"responsive", "silent"}
    /\ sdcardstatus = STA_NOINIT
    /\ pc = "idle"
    /\ call = "none"
    /\ args = ArgsNone
    /\ ret = -1
    /\ initret = -1
    /\ everok = FALSE
    /\ timeout = 0
    /\ attempts = 0
    /\ rca = 0
    /\ xfer = XferNone
    /\ regs = RegsReset
    /\ trace = <<>>
    /\ retried = FALSE

\* The driver performs acc after the accesses t and blocks at npc.
Go(t, acc, npc) ==
    /\ trace' = t \o acc
    /\ regs' = Store(regs, acc)
    /\ pc' = npc

\* The driver goes on: it performs acc and blocks at npc.
Cont(acc, npc) ==
    /\ Go(trace, acc, npc)
    /\ retried' = retried

\* The driver repeats an attempt: the last n accesses of the trace are the
\* failed attempt's and are replaced by the new attempt's.
Again(n, acc, npc) ==
    /\ trace' = SubSeq(trace, 1, Len(trace) - n) \o acc
    /\ regs' = Store(regs, acc)
    /\ pc' = npc
    /\ retried' = TRUE

DiskInitializeReturn_Swapped(r) ==
    /\ sdcardstatus' = (IF r # 0 THEN STA_NOINIT ELSE 0)
    /\ ret' = sdcardstatus'
    /\ initret' = r
    /\ everok' = (everok \/ r # 0)
    /\ pc' = "idle"

\* sd_disk_initialize once sdcard_init has returned r.
DiskInitializeReturn(r) ==
    /\ sdcardstatus' = (IF r # 0 THEN 0 ELSE STA_NOINIT)
    /\ ret' = sdcardstatus'
    /\ initret' = r
    /\ everok' = (everok \/ r # 0)
    /\ pc' = "idle"

\* sdcard_init returns r after the accesses acc.
InitReturn(acc, r) ==
    /\ trace' = trace \o acc
    /\ regs' = Store(regs, acc)
    /\ retried' = retried
    /\ DiskInitializeReturn(r)

\* What every call starts from: the locals and the call's history are fresh.
CallFrame(name) ==
    /\ pc = "idle"
    /\ call' = name
    /\ initret' = -1
    /\ retried' = FALSE
    /\ UNCHANGED <<cfg, card, everok>>

\* sd_disk_status
CallStatus ==
    /\ CallFrame("status")
    /\ \E drv \in Drives :
        /\ args' = [ArgsNone EXCEPT !.drv = drv]
        /\ ret' = (IF drv # 0 THEN STA_NOINIT ELSE sdcardstatus)
    /\ timeout' = 0 /\ attempts' = 0 /\ rca' = 0
    /\ xfer' = XferNone /\ trace' = <<>>
    /\ UNCHANGED <<sdcardstatus, pc, regs>>

\* One iteration of the ToggleAndIdle loop body, up to the poll of GO_IDLE.
ToggleIteration == <<W("phy_init_initialize", 1)>> \o sdcard_go_idle

\* One iteration of the NegotiateOCR loop body, up to the poll of APP_CMD.
OcrIteration == sdcard_app_cmd(0)

DiskInitializeGuard_Always(status) == TRUE

\* sd_disk_initialize: if (sdcardstatus)
DiskInitializeGuard(status) == status # 0

\* sd_disk_initialize, and sdcard_init up to the poll of the first GO_IDLE.
CallInitialize ==
    /\ CallFrame("initialize")
    /\ xfer' = XferNone /\ rca' = 0
    /\ \E drv \in Drives :
        /\ args' = [ArgsNone EXCEPT !.drv = drv]
        /\ IF drv # 0
           THEN /\ ret' = STA_NOINIT
                /\ timeout' = 0 /\ attempts' = 0
                /\ trace' = <<>>
                /\ UNCHANGED <<sdcardstatus, pc, regs>>
           ELSE IF DiskInitializeGuard(sdcardstatus)
           THEN LET acc == sdcard_set_clk_freq(SDCARD_CLK_FREQ_INIT)
                           \o ToggleIteration
                IN  /\ timeout' = IDLE_RETRIES /\ attempts' = 1
                    /\ trace' = acc
                    /\ regs' = Store(regs, acc)
                    /\ pc' = "go_idle"
                    /\ ret' = -1
                    /\ UNCHANGED sdcardstatus
           ELSE /\ ret' = sdcardstatus
                /\ timeout' = 0 /\ attempts' = 0
                /\ trace' = <<>>
                /\ UNCHANGED <<sdcardstatus, pc, regs>>

\* Frame of a step inside sdcard_init.
InInit(here) ==
    /\ pc = here
    /\ UNCHANGED <<cfg, card, call, args, xfer>>

\* What a step of sdcard_init that does not return leaves alone.
InitGoesOn == UNCHANGED <<sdcardstatus, ret, initret, everok>>

\* sdcard_init, lines 376-385: GO_IDLE has completed.
GoIdleDone ==
    /\ InInit("go_idle")
    /\ \E r \in CmdResults :
        /\ IF r = SD_OK
           THEN /\ Cont(<<R("cmd_event", r)>>, "toggle_chk")
                /\ UNCHANGED <<timeout, attempts>>
           ELSE /\ timeout' = timeout - 1
                /\ IF timeout' > 0
                   THEN /\ Again(Len(ToggleIteration), ToggleIteration, "go_idle")
                        /\ attempts' = attempts + 1
                   ELSE /\ Cont(<<R("cmd_event", r)>>, "toggle_chk")
                        /\ attempts' = attempts
    /\ InitGoesOn
    /\ UNCHANGED rca

\* sdcard_init, lines 386-390: the loop's exit test, then SEND_EXT_CSD.
\* timeout is not read again before line 398 and is dropped.
ToggleChk ==
    /\ InInit("toggle_chk")
    /\ IF timeout = 0
       THEN /\ InitReturn(<<>>, 0)
            /\ UNCHANGED <<timeout, attempts>>
       ELSE /\ Cont(sdcard_send_ext_csd, "send_ext_csd")
            /\ timeout' = 0 /\ attempts' = 0
            /\ InitGoesOn
    /\ UNCHANGED rca

CmdStep_NoAbort(here, acc, npc) ==
    /\ pc = here
    /\ UNCHANGED <<cfg, card, call, args, xfer>>
    /\ \E r \in CmdResults :
        /\ trace' = trace \o <<R("cmd_event", r)>> \o acc
        /\ regs' = Store(regs, acc)
        /\ pc' = npc
        /\ retried' = retried
    /\ UNCHANGED <<sdcardstatus, ret, initret, everok, timeout, attempts, rca>>

\* A step of sdcard_init that fails the bring-up unless the command is Ok:
\* on Ok the driver performs acc and blocks at npc.
CmdStep(here, acc, npc) ==
    /\ InInit(here)
    /\ \E r \in CmdResults :
        /\ IF r = SD_OK
           THEN /\ Cont(<<R("cmd_event", r)>> \o acc, npc)
                /\ InitGoesOn
           ELSE InitReturn(<<R("cmd_event", r)>>, 0)
    /\ UNCHANGED <<timeout, attempts, rca>>

\* lines 390-399: SEND_EXT_CSD done; operational clock; first APP_CMD(0).
SendExtCsdDone ==
    /\ InInit("send_ext_csd")
    /\ \E r \in CmdResults :
        /\ IF r = SD_OK
           THEN /\ Cont(<<R("cmd_event", r)>> \o sdcard_set_clk_freq(SDCARD_CLK_FREQ)
                        \o OcrIteration, "app_cmd_0")
                /\ timeout' = OCR_RETRIES /\ attempts' = 1
                /\ InitGoesOn
           ELSE /\ InitReturn(<<R("cmd_event", r)>>, 0)
                /\ UNCHANGED <<timeout, attempts>>
    /\ UNCHANGED rca

\* lines 399-400: APP_CMD(0) done (its result is not looked at); ACMD41.
AppCmd0Done ==
    /\ InInit("app_cmd_0")
    /\ \E r \in CmdResults :
        Cont(<<R("cmd_event", r)>> \o sdcard_app_send_op_cond(1), "app_send_op_cond")
    /\ InitGoesOn
    /\ UNCHANGED <<timeout, attempts, rca>>

\* line 404: r[3] & 0x80000000
OcrReady(r3) == Bit(r3[1], 15) = 1

\* The ways an ACMD41 attempt can complete: its result and, when the result
\* is Ok, word 3 of the response (not read otherwise).
OcrOutcomes ==
    {<<r, IF r = SD_OK THEN r3 ELSE U32(0)>> : r \in CmdResults, r3 \in R3Values}

\* lines 400-408: ACMD41 done.
AppSendOpCondDone ==
    /\ InInit("app_send_op_cond")
    /\ \E o \in OcrOutcomes :
        LET r == o[1]
            ready == r = SD_OK /\ OcrReady(o[2])
            seen == <<R("cmd_event", r)>>
                    \o (IF r = SD_OK THEN <<R("cmd_response", o[2])>> ELSE <<>>)
        IN  /\ IF ready
               THEN /\ Cont(seen, "ocr_chk")
                    /\ UNCHANGED <<timeout, attempts>>
               ELSE /\ timeout' = timeout - 1
                    /\ IF timeout' > 0
                       THEN /\ Again(Len(OcrIteration) + 1
                                       + Len(sdcard_app_send_op_cond(1)),
                                     OcrIteration, "app_cmd_0")
                            /\ attempts' = attempts + 1
                       ELSE /\ Cont(seen, "ocr_chk")
                            /\ attempts' = attempts
    /\ InitGoesOn
    /\ UNCHANGED rca

\* lines 409-413: the loop's exit test, then ALL_SEND_CID.
\* timeout is not read again and is dropped.
OcrChk ==
    /\ InInit("ocr_chk")
    /\ IF timeout = 0
       THEN /\ InitReturn(<<>>, 0)
            /\ UNCHANGED <<timeout, attempts>>
       ELSE /\ Cont(sdcard_all_send_cid, "all_send_cid")
            /\ timeout' = 0 /\ attempts' = 0
            /\ InitGoesOn
    /\ UNCHANGED rca

\* lines 413-419
AllSendCidDone ==
    /\ CmdStep("all_send_cid", sdcard_set_relative_address, "set_relative_address")
    /\ call' = call

\* lines 419-424: SET_RELATIVE_ADDRESS done; decode the RCA; SEND_CID(rca).
SetRelativeAddressDone ==
    /\ InInit("set_relative_address")
    /\ \E r \in CmdResults :
        /\ IF r = SD_OK
           THEN /\ \E r3 \in R3Values :
                    /\ rca' = sdcard_decode_rca(r3)
                    /\ Cont(<<R("cmd_event", r), R("cmd_response", r3)>>
                            \o sdcard_send_cid(rca'), "send_cid")
                /\ InitGoesOn
           ELSE /\ rca' = rca
                /\ InitReturn(<<R("cmd_event", r)>>, 0)
    /\ UNCHANGED <<timeout, attempts>>

\* lines 424-431
SendCidDone ==
    /\ CmdStep("send_cid", sdcard_send_csd(rca), "send_csd")
    /\ call' = call

\* lines 431-438
SendCsdDone ==
    /\ CmdStep("send_csd", sdcard_select_card(rca), "select_card")
    /\ call' = call

\* lines 438-442
SelectCardDone ==
    /\ CmdStep("select_card", sdcard_app_cmd(rca), "app_cmd_bw")
    /\ call' = call

\* lines 442-444
AppCmdBwDone ==
    /\ CmdStep("app_cmd_bw", sdcard_app_set_bus_width, "app_set_bus_width")
    /\ call' = call

\* lines 444-449: ACMD6 done; PHY to 4-bit; SWITCH_FUNC sent.
AppSetBusWidthDone ==
    /\ CmdStep("app_set_bus_width",
               <<W("phy_settings", SD_PHY_SPEED_4X)>>
               \o sdcard_switch(SD_SWITCH_SWITCH, SD_GROUP_ACCESSMODE, SD_SPEED_SDR25),
               "switch_cmd")
    /\ call' = call

ResendStep_GiveUp(here, cmdacc, acc, npc) ==
    /\ pc = here
    /\ \E r \in CmdResults :
        /\ IF r = SD_OK
           THEN Cont(<<R("cmd_event", r)>> \o acc, npc)
           ELSE Again(0, <<R("cmd_event", r)>> \o acc, npc)

\* A command sent in a loop until it is Ok (while (send(...) != SD_OK);):
\* on Ok the driver performs acc and blocks at npc.
ResendStep(here, cmdacc, acc, npc) ==
    /\ pc = here
    /\ \E r \in CmdResults :
        /\ IF r = SD_OK
           THEN Cont(<<R("cmd_event", r)>> \o acc, npc)
           ELSE Again(Len(cmdacc), cmdacc, here)

\* sdcard_switch, lines 207-210
SwitchCmdDone ==
    /\ ResendStep("switch_cmd",
                  sdcard_send_command(
                      SwitchArg(SD_SWITCH_SWITCH, SD_GROUP_ACCESSMODE, SD_SPEED_SDR25),
                      6, READ_RESPONSE_SHORT),
                  <<>>, "switch_data")
    /\ InitGoesOn
    /\ UNCHANGED <<cfg, card, call, args, xfer, timeout, attempts, rca>>

\* A step of sdcard_init that waits for a data phase and fails the bring-up
\* unless it is Ok.
DataStep(here, acc, npc) ==
    /\ InInit(here)
    /\ \E r \in DataResults :
        /\ IF r = SD_OK
           THEN /\ Cont(<<R("data_event", r)>> \o acc, npc)
                /\ InitGoesOn
           ELSE InitReturn(<<R("data_event", r)>>, 0)
    /\ UNCHANGED <<timeout, attempts, rca>>

\* sdcard_switch line 210, sdcard_init lines 449-454
SwitchDataDone ==
    /\ DataStep("switch_data", sdcard_app_cmd(rca), "app_cmd_scr")
    /\ call' = call

\* lines 454-456
AppCmdScrDone ==
    /\ CmdStep("app_cmd_scr", sdcard_app_send_scr, "send_scr_cmd")
    /\ call' = call

\* sdcard_app_send_scr, lines 219-222
SendScrCmdDone ==
    /\ ResendStep("send_scr_cmd",
                  sdcard_send_command(U32(0), 51, READ_RESPONSE_SHORT),
                  <<>>, "send_scr_data")
    /\ InitGoesOn
    /\ UNCHANGED <<cfg, card, call, args, xfer, timeout, attempts, rca>>

\* sdcard_app_send_scr line 222, sdcard_init lines 456-460
SendScrDataDone ==
    /\ DataStep("send_scr_data", sdcard_app_set_blocklen(512), "set_blocklen")
    /\ call' = call

\* lines 460-463
SetBlocklenDone ==
    /\ InInit("set_blocklen")
    /\ \E r \in CmdResults :
        /\ InitReturn(<<R("cmd_event", r)>>, IF r = SD_OK THEN 1 ELSE 0)
    /\ UNCHANGED <<timeout, attempts, rca>>

-----------------------------------------------------------------------------
(* sdcard_read, sdcard_write and sd_disk_read.                             *)

sdcard_read_single_block(blockaddr) ==
    <<W("block_length", 512), W("block_count", U32(1))>>
    \o sdcard_send_command(blockaddr, 17, READ_RESPONSE_SHORT)

sdcard_read_multiple_block(blockaddr, blockcnt) ==
    <<W("block_length", 512), W("block_count", U32(blockcnt))>>
    \o sdcard_send_command(blockaddr, 18, READ_RESPONSE_SHORT)

sdcard_write_single_block(blockaddr) ==
    <<W("block_length", 512), W("block_count", U32(1))>>
    \o sdcard_send_command(blockaddr, 24, WRITE_RESPONSE_SHORT)

sdcard_write_multiple_block(blockaddr, blockcnt) ==
    <<W("block_length", 512), W("block_count", U32(blockcnt))>>
    \o sdcard_send_command(blockaddr, 25, WRITE_RESPONSE_SHORT)

\* sdcard_read lines 472-476: nblocks of the chunk.
ReadNblocks(count) == IF cfg.cmd18 THEN count ELSE 1

\* sdcard_write lines 520-524
WriteNblocks(count) == IF cfg.cmd25 THEN count ELSE 1

ReadCommand_Single(x) == sdcard_read_single_block(x.block)

\* sdcard_read lines 487-490, up to the poll of the read command.
ReadCommand(x) ==
    IF x.nblocks > 1 THEN sdcard_read_multiple_block(x.block, x.nblocks)
    ELSE sdcard_read_single_block(x.block)

\* sdcard_write lines 535-538
WriteCommand(x) ==
    IF x.nblocks > 1 THEN sdcard_write_multiple_block(x.block, x.nblocks)
    ELSE sdcard_write_single_block(x.block)

ReadChunk_EnableFirst(x) ==
    <<W("block2mem_dma_enable", 0),
      W("block2mem_dma_enable", 1),
      W("block2mem_dma_base", x.buf),
      W("block2mem_dma_length", Mul512(x.nblocks))>>
    \o ReadCommand(x)

\* sdcard_read lines 477-490: a chunk, up to the poll of its read command.
ReadChunk(x) ==
    <<W("block2mem_dma_enable", 0),
      W("block2mem_dma_base", x.buf),
      W("block2mem_dma_length", Mul512(x.nblocks)),
      W("block2mem_dma_enable", 1)>>
    \o ReadCommand(x)

\* sdcard_write lines 525-538
WriteChunk(x) ==
    <<W("mem2block_dma_enable", 0),
      W("mem2block_dma_base", x.buf),
      W("mem2block_dma_length", Mul512(x.nblocks)),
      W("mem2block_dma_enable", 1)>>
    \o WriteCommand(x)

Advance_CountOnly(x) == [x EXCEPT !.count = x.count - x.nblocks]

\* lines 499-502 and 547-550: Update Block/Buffer/Count.
Advance(x) ==
    [x EXCEPT !.block = Add32(x.block, U32(x.nblocks)),
              !.buf = Add32(x.buf, Mul512(x.nblocks)),
              !.count = x.count - x.nblocks]

\* sdcard_read lines 505-509
FlushCaches ==
    IF CONFIG_CPU_HAS_DMA_BUS THEN <<>>
    ELSE <<<<"call", "flush_cpu_dcache">>, <<"call", "flush_l2_cache">>>>

\* Frame of a step inside sdcard_read or sdcard_write.
InXfer(here) ==
    /\ pc = here
    /\ UNCHANGED <<cfg, card, call, args, sdcardstatus, initret, everok, timeout,
                   attempts, rca>>

DiskReadResult_DataChecked(t) ==
    IF \E i \in 1 .. Len(t) : t[i][1] = "r" /\ t[i][2] = "data_event"
                               /\ t[i][3] # SD_OK
    THEN 1 ELSE RES_OK

\* sd_disk_read line 575: the value returned after sdcard_read, whose
\* accesses were t.
DiskReadResult(t) == RES_OK

\* The test of while (count) in sdcard_read with the locals x, after the
\* accesses t and acc of the call.
ReadLoop(t, acc, x) ==
    IF x.count # 0
    THEN LET y == [x EXCEPT !.nblocks = ReadNblocks(x.count)]
         IN  /\ xfer' = y
             /\ Go(t, acc \o ReadChunk(y), "read_cmd")
             /\ ret' = -1
    ELSE /\ xfer' = x
         /\ Go(t, acc \o FlushCaches, "idle")
         /\ ret' = DiskReadResult(trace')

WriteLoop_Once(t, acc, x) ==
    IF x.count # 0 /\ t = <<>>
    THEN LET y == [x EXCEPT !.nblocks = WriteNblocks(x.count)]
         IN  /\ xfer' = y
             /\ Go(t, acc \o WriteChunk(y), "write_cmd")
             /\ ret' = -1
    ELSE /\ xfer' = x
         /\ Go(t, acc, "idle")
         /\ ret' = -1

\* The test of while (count) in sdcard_write.
WriteLoop(t, acc, x) ==
    IF x.count # 0
    THEN LET y == [x EXCEPT !.nblocks = WriteNblocks(x.count)]
         IN  /\ xfer' = y
             /\ Go(t, acc \o WriteChunk(y), "write_cmd")
             /\ ret' = -1
    ELSE /\ xfer' = x
         /\ Go(t, acc, "idle")
         /\ ret' = -1

\* sd_disk_read (drv is not looked at) and sdcard_read up to its first poll.
CallRead ==
    /\ CallFrame("read")
    /\ timeout' = 0 /\ attempts' = 0 /\ rca' = 0
    /\ \E drv \in Drives, block \in Blocks, count \in Counts, buf \in Bufs :
        /\ args' = [drv |-> drv, block |-> block, count |-> count, buf |-> buf]
        /\ ReadLoop(<<>>, <<>>,
                    [block |-> U32(block), count |-> count, buf |-> buf, nblocks |-> 0])
    /\ UNCHANGED sdcardstatus

\* sdcard_write up to its first poll.
CallWrite ==
    /\ CallFrame("write")
    /\ timeout' = 0 /\ attempts' = 0 /\ rca' = 0
    /\ \E block \in Blocks, count \in Counts, buf \in Bufs :
        /\ args' = [drv |-> 0, block |-> block, count |-> count, buf |-> buf]
        /\ WriteLoop(<<>>, <<>>,
                     [block |-> U32(block), count |-> count, buf |-> buf, nblocks |-> 0])
    /\ UNCHANGED sdcardstatus

\* sdcard_read_single_block / _multiple_block: the retry loop, then the
\* data phase is awaited.
ReadCmdDone ==
    /\ InXfer("read_cmd")
    /\ ResendStep("read_cmd",
                  sdcard_send_command(xfer.block, IF xfer.nblocks > 1 THEN 18 ELSE 17,
                                      READ_RESPONSE_SHORT),
                  <<>>, "read_data")
    /\ UNCHANGED <<xfer, ret>>

ReadDataDone_StopFirst ==
    /\ InXfer("read_data")
    /\ \E r \in DataResults :
        Cont(<<R("data_event", r)>>
             \o (IF xfer.nblocks > 1 THEN sdcard_stop_transmission ELSE <<>>),
             IF xfer.nblocks > 1 THEN "read_stop" ELSE "read_dma")
    /\ UNCHANGED <<xfer, ret>>

\* sdcard_wait_data_done in the read command; its result is dropped by
\* sdcard_read (lines 488, 490), which goes on to poll the DMA writer.
ReadDataDone ==
    /\ InXfer("read_data")
    /\ \E r \in DataResults : Cont(<<R("data_event", r)>>, "read_dma")
    /\ UNCHANGED <<xfer, ret>>

\* sdcard_read lines 493-502: the DMA writer is done.
ReadDmaDone ==
    /\ InXfer("read_dma")
    /\ IF xfer.nblocks > 1
       THEN /\ Cont(<<R("block2mem_dma_done", 1)>> \o sdcard_stop_transmission,
                    "read_stop")
            /\ UNCHANGED <<xfer, ret>>
       ELSE /\ ReadLoop(trace, <<R("block2mem_dma_done", 1)>>, Advance(xfer))
            /\ retried' = retried

\* sdcard_read lines 497-502: STOP_TRANSMISSION done, its result dropped.
ReadStopDone ==
    /\ InXfer("read_stop")
    /\ \E r \in CmdResults :
        ReadLoop(trace, <<R("cmd_event", r)>>, Advance(xfer))
    /\ retried' = retried

WriteCmdDone_DmaFirst ==
    /\ InXfer("write_cmd")
    /\ ResendStep("write_cmd",
                  sdcard_send_command(xfer.block, IF xfer.nblocks > 1 THEN 25 ELSE 24,
                                      WRITE_RESPONSE_SHORT),
                  <<>>, "write_dma")
    /\ UNCHANGED <<xfer, ret>>

\* sdcard_write_single_block / _multiple_block: the retry loop; no data
\* phase is awaited; lines 541-545.
WriteCmdDone ==
    /\ InXfer("write_cmd")
    /\ ResendStep("write_cmd",
                  sdcard_send_command(xfer.block, IF xfer.nblocks > 1 THEN 25 ELSE 24,
                                      WRITE_RESPONSE_SHORT),
                  IF xfer.nblocks > 1 THEN sdcard_stop_transmission ELSE <<>>,
                  IF xfer.nblocks > 1 THEN "write_stop" ELSE "write_dma")
    /\ UNCHANGED <<xfer, ret>>

\* sdcard_write lines 542-545: STOP_TRANSMISSION done, its result dropped.
WriteStopDone ==
    /\ InXfer("write_stop")
    /\ \E r \in CmdResults : Cont(<<R("cmd_event", r)>>, "write_dma")
    /\ UNCHANGED <<xfer, ret>>

WriteDmaDone_NoPoll ==
    /\ InXfer("write_dma")
    /\ WriteLoop(trace, <<>>, Advance(xfer))
    /\ retried' = retried

\* sdcard_write lines 545-550: the DMA reader is done.
WriteDmaDone ==
    /\ InXfer("write_dma")
    /\ WriteLoop(trace, <<R("mem2block_dma_done", 1)>>, Advance(xfer))
    /\ retried' = retried

-----------------------------------------------------------------------------

WaitCmd ==
    {"go_idle", "send_ext_csd", "app_cmd_0", "app_send_op_cond", "all_send_cid",
     "set_relative_address", "send_cid", "send_csd", "select_card", "app_cmd_bw",
     "app_set_bus_width", "switch_cmd", "app_cmd_scr", "send_scr_cmd",
     "set_blocklen", "read_cmd", "read_stop", "write_cmd", "write_stop"}
WaitData == {"switch_data", "send_scr_data", "read_data"}
WaitDma == {"read_dma", "write_dma"}

\* A poll that does not find its done flag: the loop goes round.
PollBusy ==
    /\ IF pc \in WaitCmd THEN {ev \in CmdEvents : ~EventDone(ev)} # {}
       ELSE IF pc \in WaitData THEN {ev \in Events : ~EventDone(ev)} # {}
       ELSE pc \in WaitDma /\ {done \in {0, 1} : Bit(done, 0) = 0} # {}
    /\ UNCHANGED vars

Next ==
    \/ CallStatus \/ CallInitialize
    \/ GoIdleDone \/ ToggleChk \/ SendExtCsdDone \/ AppCmd0Done
    \/ AppSendOpCondDone \/ OcrChk \/ AllSendCidDone \/ SetRelativeAddressDone
    \/ SendCidDone \/ SendCsdDone \/ SelectCardDone \/ AppCmdBwDone
    \/ AppSetBusWidthDone \/ SwitchCmdDone \/ SwitchDataDone \/ AppCmdScrDone
    \/ SendScrCmdDone \/ SendScrDataDone \/ SetBlocklenDone
    \/ CallRead \/ CallWrite
    \/ ReadCmdDone \/ ReadDataDone \/ ReadDmaDone \/ ReadStopDone
    \/ WriteCmdDone \/ WriteStopDone \/ WriteDmaDone
    \/ PollBusy

Spec == Init /\ [][Next]_vars

-----------------------------------------------------------------------------
(* Reading the trace.                                                      *)

IsWrite(a, reg) == a[1] = "w" /\ a[2] = reg
IsRead(a, reg) == a[1] = "r" /\ a[2] = reg

\* The command sent by the write of cmd_send at position i of t:
\* <<"cmd", index, argument, data transfer>>.
CommandAt(t, i) == <<"cmd", t[i - 1][3][1], t[i - 2][3], t[i - 1][3][2][1]>>

\* The commands sent and the clock dividers written in t, in order.
Bus(t) ==
    LET F[i \in 0 .. Len(t)] ==
            IF i = 0 THEN <<>>
            ELSE IF IsWrite(t[i], "cmd_send") THEN Append(F[i - 1], CommandAt(t, i))
            ELSE IF IsWrite(t[i], "clocker_divider")
                 THEN Append(F[i - 1], <<"clk", t[i][3]>>)
            ELSE F[i - 1]
    IN  F[Len(t)]

IsCommand(e) == e[1] = "cmd"
Commands(t) == SelectSeq(Bus(t), IsCommand)

\* The values written to reg in t, in order.
Written(t, reg) ==
    LET F[i \in 0 .. Len(t)] ==
            IF i = 0 THEN <<>>
            ELSE IF IsWrite(t[i], reg) THEN Append(F[i - 1], t[i][3])
            ELSE F[i - 1]
    IN  F[Len(t)]

\* Every command and data phase of t that was waited for ended Ok.
AllOk(t) ==
    \A i \in 1 .. Len(t) :
        (IsRead(t[i], "cmd_event") \/ IsRead(t[i], "data_event")) => t[i][3] = SD_OK

IsCmd(e, n) == e[1] = "cmd" /\ e[2] = n
IsCmdArg(e, n, a) == IsCmd(e, n) /\ e[3] = a
IsClk(e, f) == e[1] = "clk" /\ e[2] = Divider(f)

\* The i-th entry of the bus sequence of a bring-up with relative address a.
BringUpAt(i, e, a) ==
    CASE i = 1 -> IsClk(e, SDCARD_CLK_FREQ_INIT)
      [] i = 2 -> IsCmdArg(e, 0, U32(0))
      [] i = 3 -> IsCmdArg(e, 8, U32(426))
      [] i = 4 -> IsClk(e, SDCARD_CLK_FREQ)
      [] i = 5 -> IsCmdArg(e, 55, U32(0))
      [] i = 6 -> IsCmd(e, 41)
      [] i = 7 -> IsCmd(e, 2)
      [] i = 8 -> IsCmd(e, 3)
      [] i = 9 -> IsCmd(e, 10)
      [] i = 10 -> IsCmd(e, 9)
      [] i = 11 -> IsCmd(e, 7)
      [] i = 12 -> IsCmdArg(e, 55, <<a, 0>>)
      [] i = 13 -> IsCmdArg(e, 6, U32(2)) /\ e[4] = "NONE"
      [] i = 14 -> IsCmd(e, 6) /\ e[4] = "READ"
      [] i = 15 -> IsCmdArg(e, 55, <<a, 0>>)
      [] i = 16 -> IsCmd(e, 51)
      [] i = 17 -> IsCmdArg(e, 16, U32(512))
      [] OTHER -> FALSE

\* b is the beginning of the bus sequence of a bring-up.
BringUpPrefix(b, a) == \A i \in 1 .. Len(b) : BringUpAt(i, b[i], a)

\* b is the bus sequence of a whole bring-up.
BringUpWhole(b, a) == Len(b) = 17 /\ BringUpPrefix(b, a)

\* sd_disk_initialize has returned, having run sdcard_init.
InitReturned == pc = "idle" /\ call = "initialize" /\ initret # -1

-----------------------------------------------------------------------------
(* Properties.                                                             *)

\* C1: the status starts NotInitialized and takes no other value than Ready
\* and NotInitialized; it is Ready only if some sdcard_init has returned 1,
\* and an sdcard_init that returns 1 has issued the whole bring-up sequence
\* and leaves Ready, which initialize returns; an sdcard_init that fails
\* leaves NotInitialized, which initialize returns.
C1_ReadyOnlyAfterBringUp ==
    /\ call = "none" => sdcardstatus = STA_NOINIT
    /\ sdcardstatus \in {0, STA_NOINIT}
    /\ sdcardstatus = 0 => everok
    /\ (InitReturned /\ initret = 0) =>
            sdcardstatus = STA_NOINIT /\ ret = STA_NOINIT
    /\ (InitReturned /\ initret # 0) =>
            /\ sdcardstatus = 0 /\ ret = 0
            /\ BringUpWhole(Bus(trace), rca)
            /\ trace[Len(trace)] = R("cmd_event", SD_OK)

C1_Witness == InitReturned /\ initret = 1 /\ sdcardstatus = 0 /\ everok

\* C2: once the status is Ready it stays Ready, and initialize on drive 0
\* in Ready returns Ready at once: no register is accessed, so no command is
\* sent.
C2_InitializeIdempotent ==
    [][sdcardstatus = 0 =>
          /\ sdcardstatus' = 0
          /\ (pc = "idle" /\ call' = "initialize" /\ args'.drv = 0) =>
                /\ pc' = "idle"
                /\ ret' = 0
                /\ trace' = <<>>
                /\ regs' = regs]_vars

C2_Witness ==
    /\ sdcardstatus = 0 /\ everok
    /\ pc = "idle" /\ call = "initialize" /\ args.drv = 0
    /\ initret = -1 /\ trace = <<>> /\ ret = 0

\* The last access of t is the read of a command that did not end Ok, and the
\* command is GO_IDLE.
GoIdleFailedLast(t) ==
    /\ Len(t) > 3
    /\ IsRead(t[Len(t)], "cmd_event") /\ t[Len(t)][3] # SD_OK
    /\ IsWrite(t[Len(t) - 1], "cmd_send")
    /\ IsCmd(CommandAt(t, Len(t) - 1), 0)

\* C3 as stated: with a command engine that never sets the done flag,
\* initialize on drive 0 goes on until it returns NotInitialized after 1000
\* GO_IDLE attempts, having sent no other command.
C3_AsStated ==
    (card = "silent" /\ call = "initialize" /\ args.drv = 0) =>
        IF pc = "idle"
        THEN ret = STA_NOINIT /\ attempts = 1000
             /\ \A i \in 1 .. Len(Commands(trace)) : IsCmd(Commands(trace)[i], 0)
        ELSE ENABLED <<Next>>_vars

\* C3: in the ToggleAndIdle loop the attempts are counted down from 1000;
\* when every GO_IDLE attempt completes with a result other than Ok,
\* initialize returns NotInitialized after exactly 1000 attempts, and no
\* command other than GO_IDLE has been sent.
C3_CardAbsent ==
    /\ (call = "initialize" /\ pc = "go_idle") =>
            attempts \in 1 .. 1000 /\ timeout = 1000 - attempts + 1
    /\ (InitReturned /\ GoIdleFailedLast(trace)) =>
            /\ attempts = 1000 /\ timeout = 0
            /\ initret = 0 /\ ret = STA_NOINIT /\ sdcardstatus = STA_NOINIT
            /\ \A i \in 1 .. Len(Commands(trace)) : IsCmd(Commands(trace)[i], 0)

C3_Witness ==
    /\ InitReturned /\ GoIdleFailedLast(trace)
    /\ attempts = 1000 /\ ret = STA_NOINIT

NonRetried ==
    {"send_ext_csd", "all_send_cid", "set_relative_address", "send_cid",
     "send_csd", "select_card", "app_cmd_bw", "app_set_bus_width", "switch_data",
     "app_cmd_scr", "send_scr_data", "set_blocklen"}

\* C5: when a command or data phase of a non-retried step of sdcard_init
\* ends with a result other than Ok, sdcard_init returns 0 in that step:
\* the read of the event register is the call's last access, so no later
\* command is sent and no register is written, and initialize returns
\* NotInitialized.
C5_AbortOnFirstFailure ==
    [][(call = "initialize" /\ pc \in NonRetried /\ Len(trace') > Len(trace)
            /\ trace'[Len(trace) + 1][3] # SD_OK) =>
          /\ trace' = Append(trace, trace'[Len(trace) + 1])
          /\ regs' = regs
          /\ pc' = "idle"
          /\ initret' = 0
          /\ ret' = STA_NOINIT
          /\ sdcardstatus' = STA_NOINIT]_vars

C5_Witness ==
    /\ InitReturned /\ initret = 0
    /\ IsRead(trace[Len(trace)], "cmd_event") /\ trace[Len(trace)][3] = SD_CRCERROR
    /\ IsCmd(CommandAt(trace, Len(trace) - 1), 7)

\* The command sent at position i of t carries the card's address or has a
\* data phase.
NeedsAddress(t, i) ==
    IsWrite(t[i], "cmd_send")
    /\ (CommandAt(t, i)[2] \in {10, 9, 7} \/ CommandAt(t, i)[4] # "NONE")

\* At position j of t SET_RELATIVE_ADDRESS is sent; it ends Ok and the
\* response is read, all before position i.
AddressSetBefore(t, j, i) ==
    /\ j + 2 < i
    /\ IsWrite(t[j], "cmd_send") /\ IsCmd(CommandAt(t, j), 3)
    /\ IsRead(t[j + 1], "cmd_event") /\ t[j + 1][3] = SD_OK
    /\ IsRead(t[j + 2], "cmd_response")

\* C6: in a bring-up, before SEND_CID, SEND_CSD, SELECT_CARD or any command
\* with a data phase is sent, SET_RELATIVE_ADDRESS has been sent and has
\* ended Ok and its response has been read for the RCA.
C6_AddressBeforeAddressed ==
    call = "initialize" =>
        \A i \in 1 .. Len(trace) :
            NeedsAddress(trace, i) =>
                \E j \in 1 .. i : AddressSetBefore(trace, j, i)

C6_Witness ==
    /\ call = "initialize" /\ pc = "select_card"
    /\ \E i \in 1 .. Len(trace) :
          NeedsAddress(trace, i) /\ IsCmd(CommandAt(trace, i), 7)

\* Position j of t is the read of the response to SET_RELATIVE_ADDRESS.
AddressRead(t, j) ==
    /\ j > 4
    /\ IsRead(t[j], "cmd_response")
    /\ IsWrite(t[j - 2], "cmd_send") /\ IsCmd(CommandAt(t, j - 2), 3)

\* C7: the RCA is bits 31..16 of word 3 of the response to
\* SET_RELATIVE_ADDRESS, whatever bits 15..0 are (0xABCD for 0xABCDxxxx),
\* and every SEND_CID, SEND_CSD, SELECT_CARD and APP_CMD sent afterwards has
\* the RCA in bits 31..16 of its argument and 0 in bits 15..0.
C7_RcaDecoding ==
    call = "initialize" =>
        \A j \in 1 .. Len(trace) :
            AddressRead(trace, j) =>
                /\ rca = trace[j][3][1]
                /\ \A i \in j + 1 .. Len(trace) :
                      (IsWrite(trace[i], "cmd_send")
                          /\ CommandAt(trace, i)[2] \in {10, 9, 7, 55}) =>
                      CommandAt(trace, i)[3] = <<rca, 0>>

C7_Witness ==
    /\ InitReturned /\ initret = 1 /\ rca = 43981
    /\ \E j \in 1 .. Len(trace) :
          AddressRead(trace, j) /\ trace[j][3] = <<43981, 4660>>

\* C8: sd_disk_read returns RES_OK whatever the results of the data phases
\* and of STOP_TRANSMISSION, leaves the status as it is, and in any status
\* programs the DMA writer and sends the read command when count is not 0.
C8_DiskReadAlwaysOk ==
    [][call' = "read" =>
          /\ sdcardstatus' = sdcardstatus
          /\ pc' = "idle" => ret' = RES_OK
          /\ (pc = "idle" /\ args'.count # 0) =>
                /\ pc' = "read_cmd"
                /\ Written(trace', "block2mem_dma_enable") = <<0, 1>>
                /\ Len(Commands(trace')) = 1
                /\ Commands(trace')[1][2] \in {17, 18}]_vars

C8_Witness ==
    /\ pc = "idle" /\ call = "read" /\ ret = RES_OK
    /\ sdcardstatus = STA_NOINIT /\ ~everok
    /\ \E i \in 1 .. Len(trace) :
          IsRead(trace[i], "data_event") /\ trace[i][3] = SD_TIMEOUT
    /\ \E i \in 1 .. Len(trace) :
          IsRead(trace[i], "cmd_event") /\ trace[i][3] = SD_CRCERROR

\* The iterations of the transfer loop in t, one per write of the DMA length
\* register lenreg at position i: the DMA base (i - 1) and length (i), the
\* block count (i + 3) and the command argument (i + 4) of the iteration.
Iterations(t, lenreg) ==
    LET F[i \in 0 .. Len(t)] ==
            IF i = 0 THEN <<>>
            ELSE IF IsWrite(t[i], lenreg)
                 THEN Append(F[i - 1], [base |-> t[i - 1][3], length |-> t[i][3],
                                        nblocks |-> t[i + 3][3], addr |-> t[i + 4][3]])
            ELSE F[i - 1]
    IN  F[Len(t)]

\* The number a word stands for (below 2^31).
ToInt(w) == w[1] * Half + w[2]

\* The blocks of the first k iterations of it.
BlocksIn(it, k) ==
    LET S[m \in 0 .. k] == IF m = 0 THEN 0 ELSE S[m - 1] + ToInt(it[m].nblocks)
    IN  S[k]

\* A transfer has returned.
XferReturned == pc = "idle" /\ call \in {"read", "write"}

\* C9: a transfer of count > 0 blocks that returns has run 1 iteration if
\* the direction's multi-block command is built in and count iterations if
\* not; the nblocks of its iterations add up to count; each iteration's
\* command argument is the start block plus the blocks of the iterations
\* before it, its DMA base the buffer plus 512 times those blocks and its
\* DMA length 512 times its nblocks; count has come down to 0.
C9_BlockAccounting ==
    (XferReturned /\ args.count > 0) =>
        LET it == Iterations(trace, IF call = "read" THEN "block2mem_dma_length"
                                    ELSE "mem2block_dma_length")
            multi == IF call = "read" THEN cfg.cmd18 ELSE cfg.cmd25
        IN  /\ Len(it) = (IF multi THEN 1 ELSE args.count)
            /\ BlocksIn(it, Len(it)) = args.count
            /\ \A k \in 1 .. Len(it) :
                  /\ it[k].addr = U32(args.block + BlocksIn(it, k - 1))
                  /\ it[k].base = Add32(args.buf, U32(512 * BlocksIn(it, k - 1)))
                  /\ it[k].length = U32(512 * ToInt(it[k].nblocks))
            /\ xfer.count = 0

C9_Witness ==
    /\ XferReturned /\ call = "write" /\ ~cfg.cmd25 /\ args.count = MaxCount
    /\ Len(Iterations(trace, "mem2block_dma_length")) = MaxCount
    /\ args.block = 100

\* C10: a read that returns without a repeated attempt has, when CMD18 is
\* built in and count > 1, sent CMD18 with the start block as argument and
\* then CMD12 and no other command, written count to the block count
\* register and 512 * count to the DMA writer's length register, once each;
\* when count = 1 it has sent CMD17 with the start block and no other
\* command, with block length 512 and block count 1.
C10_ReadCommandShape ==
    (XferReturned /\ call = "read" /\ ~retried) =>
        /\ (cfg.cmd18 /\ args.count > 1) =>
              /\ Commands(trace) = <<<<"cmd", 18, U32(args.block), "READ">>,
                                     <<"cmd", 12, U32(0), "NONE">>>>
              /\ Written(trace, "block_count") = <<U32(args.count)>>
              /\ Written(trace, "block_length") = <<512>>
              /\ Written(trace, "block2mem_dma_length") = <<U32(512 * args.count)>>
        /\ args.count = 1 =>
              /\ Commands(trace) = <<<<"cmd", 17, U32(args.block), "READ">>>>
              /\ Written(trace, "block_count") = <<U32(1)>>
              /\ Written(trace, "block_length") = <<512>>
              /\ Written(trace, "block2mem_dma_length") = <<U32(512)>>

C10_Witness ==
    /\ XferReturned /\ call = "read" /\ ~retried
    /\ cfg.cmd18 /\ args.count = MaxCount /\ args.block = 100
    /\ Len(Commands(trace)) = 2

\* The accesses of the iteration in progress of a transfer: t from the write
\* that disables the DMA engine whose length register is lenreg (two accesses
\* before the last write of lenreg).
Chunk(t, lenreg) ==
    LET at == {i \in 1 .. Len(t) : IsWrite(t[i], lenreg)}
    IN  IF at = {} THEN <<>>
        ELSE SubSeq(t, (CHOOSE i \in at : \A j \in at : j <= i) - 2, Len(t))

\* The positions of c where reg is read.
ReadsOf(c, reg) == {i \in 1 .. Len(c) : IsRead(c[i], reg)}

\* The positions of c where command n is sent.
SendsOf(c, n) ==
    {i \in 1 .. Len(c) : IsWrite(c[i], "cmd_send") /\ IsCmd(CommandAt(c, i), n)}

\* C11: in an iteration of sdcard_write with nblocks > 1, the DMA reader's
\* done flag is not polled while the write command or STOP_TRANSMISSION is
\* in progress; when it is polled, WRITE_MULTIPLE_BLOCK has been sent and
\* has ended Ok, and after that STOP_TRANSMISSION has been sent and has
\* completed, and these are the iteration's only commands.
C11_WriteStopBeforeDma ==
    (call = "write" /\ pc # "idle" /\ xfer.nblocks > 1) =>
        LET c == Chunk(trace, "mem2block_dma_length")
        IN  /\ cfg.cmd25
            /\ ReadsOf(c, "mem2block_dma_done") = {}
            /\ pc \in {"write_cmd", "write_stop", "write_dma"}
            /\ pc = "write_cmd" => SendsOf(c, 12) = {}
            /\ pc # "write_cmd" =>
                  \E i \in SendsOf(c, 25) :
                      /\ c[i + 1] = R("cmd_event", SD_OK)
                      /\ SendsOf(c, 12) = {i + 4}
                      /\ pc = "write_dma" =>
                            Len(c) = i + 5 /\ IsRead(c[i + 5], "cmd_event")

C11_Witness ==
    /\ call = "write" /\ pc = "write_dma" /\ xfer.nblocks = MaxCount
    /\ args.block = 0
    /\ SendsOf(Chunk(trace, "mem2block_dma_length"), 12) # {}

-----------------------------------------------------------------------------
(* sdcard_send_command, sdcard_wait_data_done and sdcard_set_clk_freq taken *)
(* alone: one call at a time with arguments drawn from small sets, every    *)
(* poll of an event register in the trace with the value it read.           *)

MaxPolls == 3

CmdArgs == {U32(0), <<43981, 0>>}
CmdIndexes == {0, 17}
CmdRsps == {RESPONSE_NONE, READ_RESPONSE_SHORT}
\* clk_freq below 2^31: 0, 1, the two frequencies of the driver, one that
\* does not divide the system clock, the system clock, twice the system clock.
Freqs == {0, 1, SDCARD_CLK_FREQ_INIT, SDCARD_CLK_FREQ, 30000000,
          CONFIG_CLOCK_FREQUENCY, 2 * CONFIG_CLOCK_FREQUENCY}
\* clk_freq of 2^31 and more: 0x80000000, 0xFA0A1EFF, 0xFA0A1F01, 0xFFFFFFFF.
WideFreqs == {<<32768, 0>>, <<64010, 7935>>, <<64010, 7937>>, <<65535, 65535>>}

\* A poll of an event register that read ev.
P(reg, ev) == <<"p", reg, ev>>

\* What a call taken alone leaves alone.
UnitFrame ==
    UNCHANGED <<cfg, card, sdcardstatus, initret, everok, timeout, attempts, rca,
                xfer, regs, retried>>

\* sdcard_send_command up to the loop of sdcard_wait_cmd_done.
UnitSendCommand ==
    /\ pc = "idle"
    /\ \E arg \in CmdArgs, cmd \in CmdIndexes, rsp \in CmdRsps :
        /\ args' = [arg |-> arg, cmd |-> cmd, rsp |-> rsp]
        /\ trace' = sdcard_send_command(arg, cmd, rsp)
    /\ call' = "sdcard_send_command"
    /\ pc' = "cmd_poll"
    /\ ret' = -1
    /\ UnitFrame

\* sdcard_wait_cmd_done: one round of the loop, and the return after it.
UnitCmdPoll ==
    /\ pc = "cmd_poll"
    /\ \E ev \in CmdEvents :
        /\ trace' = Append(trace, P("cmd_event", ev))
        /\ IF EventDone(ev)
           THEN pc' = "idle" /\ ret' = CmdResult(ev)
           ELSE Len(trace) < 2 + MaxPolls /\ pc' = pc /\ ret' = ret
    /\ UNCHANGED <<call, args>>
    /\ UnitFrame

\* sdcard_wait_data_done up to its loop.
UnitWaitDataDone ==
    /\ pc = "idle"
    /\ call' = "sdcard_wait_data_done"
    /\ args' = ArgsNone
    /\ trace' = <<>>
    /\ pc' = "data_poll"
    /\ ret' = -1
    /\ UnitFrame

\* sdcard_wait_data_done: one round of the loop, and the return after it.
UnitDataPoll ==
    /\ pc = "data_poll"
    /\ \E ev \in Events :
        /\ trace' = Append(trace, P("data_event", ev))
        /\ IF EventDone(ev)
           THEN pc' = "idle" /\ ret' = DataResult(ev)
           ELSE Len(trace) < MaxPolls - 1 /\ pc' = pc /\ ret' = ret
    /\ UNCHANGED <<call, args>>
    /\ UnitFrame

\* sdcard_set_clk_freq(clk_freq, show); what show prints is left out.
UnitSetClkFreq ==
    /\ pc = "idle"
    /\ \E show \in {0, 1} :
        \/ \E f \in Freqs :
            /\ args' = [clk_freq |-> f, wide |-> FALSE, show |-> show]
            /\ trace' = sdcard_set_clk_freq(f)
        \/ \E w \in WideFreqs :
            /\ args' = [clk_freq |-> w, wide |-> TRUE, show |-> show]
            /\ trace' = <<W("clocker_divider", DividerWide(w))>>
    /\ call' = "sdcard_set_clk_freq"
    /\ ret' = -1
    /\ UNCHANGED pc
    /\ UnitFrame

UnitNext ==
    \/ UnitSendCommand \/ UnitCmdPoll
    \/ UnitWaitDataDone \/ UnitDataPoll
    \/ UnitSetClkFreq

UnitSpec == Init /\ [][UnitNext]_vars

IsPoll(a, reg) == a[1] = "p" /\ a[2] = reg

\* C12: sdcard_send_command writes the argument register, then the command
\* register, then the send trigger; after that it only polls the
\* command-event register, never the data-event register; no poll before
\* the last has read the done flag, and the call has returned exactly when
\* the last poll read it; from that event value it returns SD_TIMEOUT if
\* the timeout flag is set, SD_CRCERROR if the CRC flag is set and the
\* timeout flag is not, SD_OK if neither is.  sdcard_wait_data_done polls
\* only the data-event register.
C12_CommandResult ==
    /\ call = "sdcard_send_command" =>
          /\ SubSeq(trace, 1, 3) = <<W("cmd_argument", args.arg),
                                     W("cmd_command", <<args.cmd, args.rsp>>),
                                     W("cmd_send", 1)>>
          /\ \A i \in 4 .. Len(trace) : IsPoll(trace[i], "cmd_event")
          /\ \A i \in 4 .. Len(trace) - 1 : trace[i][3] % 2 = 0
          /\ pc = "idle" <=> (Len(trace) > 3 /\ trace[Len(trace)][3] % 2 = 1)
          /\ pc = "idle" =>
                LET event == trace[Len(trace)][3]
                    timedout == (event \div 4) % 2 = 1
                    crc == (event \div 8) % 2 = 1
                IN  /\ timedout => ret = SD_TIMEOUT
                    /\ (crc /\ ~timedout) => ret = SD_CRCERROR
                    /\ (~crc /\ ~timedout) => ret = SD_OK
    /\ call = "sdcard_wait_data_done" =>
          \A i \in 1 .. Len(trace) : IsPoll(trace[i], "data_event")

C12_Witness ==
    /\ call = "sdcard_send_command" /\ pc = "idle"
    /\ Len(trace) = 5 /\ trace[5] = P("cmd_event", 13)
    /\ ret = SD_TIMEOUT

\* C13: sdcard_set_clk_freq writes the divider register once and nothing
\* else, with or without show; for clk_freq = 0 it writes 256, and for a
\* positive clk_freq the ceiling of CONFIG_CLOCK_FREQUENCY / clk_freq
\* brought into 2 .. 256 (for a clk_freq of 2^31 or more the ceiling is 1
\* and the value written 2).
C13_ClockDivider ==
    call = "sdcard_set_clk_freq" =>
        /\ Len(trace) = 1
        /\ IsWrite(trace[1], "clocker_divider")
        /\ trace[1][3] \in 2 .. 256
        /\ LET f == args.clk_freq
               ceil == IF args.wide THEN 1
                       ELSE IF f = 0 THEN 0
                       ELSE (CONFIG_CLOCK_FREQUENCY \div f)
                            + (IF CONFIG_CLOCK_FREQUENCY % f = 0 THEN 0 ELSE 1)
           IN  trace[1][3] = (IF ~args.wide /\ f = 0 THEN 256
                              ELSE IF ceil < 2 THEN 2
                              ELSE IF ceil > 256 THEN 256
                              ELSE ceil)

C13_Witness ==
    /\ call = "sdcard_set_clk_freq" /\ ~args.wide
    /\ args.clk_freq = 30000000 /\ args.show = 1
    /\ trace = <<W("clocker_divider", 4)>>

\* C14: in an iteration of sdcard_read with nblocks > 1, STOP_TRANSMISSION
\* is not sent while the read command, its data phase or the DMA writer is
\* being waited for; when it is sent, READ_MULTIPLE_BLOCK has ended Ok, then
\* the data-event register has been read with its done flag, then the DMA
\* writer's done register has been read as set, and STOP_TRANSMISSION
\* follows at once.
C14_ReadStopAfterDma ==
    (call = "read" /\ pc # "idle" /\ xfer.nblocks > 1) =>
        LET c == Chunk(trace, "block2mem_dma_length")
        IN  /\ pc \in {"read_cmd", "read_data", "read_dma", "read_stop"}
            /\ pc # "read_stop" => SendsOf(c, 12) = {}
            /\ pc = "read_stop" =>
                  \E i \in SendsOf(c, 18) :
                      /\ c[i + 1] = R("cmd_event", SD_OK)
                      /\ IsRead(c[i + 2], "data_event")
                      /\ c[i + 3] = R("block2mem_dma_done", 1)
                      /\ SendsOf(c, 12) = {i + 6}
                      /\ Len(c) = i + 6

C14_Witness ==
    /\ call = "read" /\ pc = "read_stop" /\ xfer.nblocks = MaxCount
    /\ \E i \in 1 .. Len(trace) : trace[i] = R("data_event", SD_CRCERROR)

\* At position i of t a command with a data phase is sent, and it ends Ok.
DataCommandAccepted(t, i) ==
    /\ IsWrite(t[i], "cmd_send")
    /\ CommandAt(t, i)[4] # "NONE"
    /\ i < Len(t)
    /\ t[i + 1] = R("cmd_event", SD_OK)

\* C15 as stated: after every command with a data phase that ended Ok
\* (SWITCH_FUNC, APP_SEND_SCR, the read and the write block commands), the
\* data-event register is read with its done flag before the next command
\* is sent.
C15_AsStated ==
    \A i \in 1 .. Len(trace) :
        DataCommandAccepted(trace, i) =>
            \A j \in i + 1 .. Len(trace) :
                IsWrite(trace[j], "cmd_send") =>
                    \E k \in i + 2 .. j - 1 : IsRead(trace[k], "data_event")

\* The registers of the DMA engine a transfer uses.
Engine(name) ==
    IF name = "read"
    THEN [enable |-> "block2mem_dma_enable", base |-> "block2mem_dma_base",
          length |-> "block2mem_dma_length"]
    ELSE [enable |-> "mem2block_dma_enable", base |-> "mem2block_dma_base",
          length |-> "mem2block_dma_length"]

\* The position of the last write of reg in t before position i, 0 if none.
LastWrite(t, reg, i) ==
    LET at == {j \in 1 .. i - 1 : IsWrite(t[j], reg)}
    IN  IF at = {} THEN 0 ELSE CHOOSE j \in at : \A k \in at : k <= j

\* C16: in sdcard_read and sdcard_write, the base and the length register of
\* the engine are written only when the last write of its enable register
\* in the call was a 0; a 1 is written to the enable register only after
\* the base and the length have both been written since that 0 and no
\* command has been sent since; and a command with a data phase is sent
\* only when the last write of the enable register was a 1.
C16_DmaProgramming ==
    call \in {"read", "write"} =>
        LET e == Engine(call)
            t == trace
        IN  \A i \in 1 .. Len(t) :
                LET en == LastWrite(t, e.enable, i)
                IN  /\ (IsWrite(t[i], e.base) \/ IsWrite(t[i], e.length)) =>
                          en > 0 /\ t[en][3] = 0
                    /\ (IsWrite(t[i], e.enable) /\ t[i][3] = 1) =>
                          /\ en > 0 /\ t[en][3] = 0
                          /\ LastWrite(t, e.base, i) > en
                          /\ LastWrite(t, e.length, i) > en
                          /\ LastWrite(t, "cmd_send", i) < en
                    /\ (IsWrite(t[i], "cmd_send") /\ CommandAt(t, i)[4] # "NONE") =>
                          en > 0 /\ t[en][3] = 1

C16_Witness ==
    /\ call = "read" /\ pc = "read_dma" /\ ~cfg.cmd18
    /\ Len(Written(trace, "block2mem_dma_enable")) = 4


\* ---------------------------------------------------------------------------
\* One DMA engine at a time.

\* The two enable registers.
Enables == {"block2mem_dma_enable", "mem2block_dma_enable"}

\* The engine of enable register e is enabled and the transfer started by the
\* last write of 1 to e has not been observed done.
InProgress(e) == regs[e] = 1 /\ regs[DoneOf(e)] = 0

\* C17 as stated: whenever one engine is enabled with its transfer not yet
\* done, the enable register of the other engine is 0.
C17_AsStated ==
    \A e \in Enables : \A o \in Enables \ {e} :
        InProgress(e) => regs[o] = 0

\* C17: at most one engine has a transfer in progress at a time: whenever one
\* engine is enabled with its transfer not yet done, every transfer of the
\* other engine has been observed done (its enable register keeps the 1 of
\* its last transfer, since no call writes 0 to it afterwards), and no
\* transfer is in progress between calls.
C17_OneTransferInProgress ==
    /\ \A e \in Enables : \A o \in Enables \ {e} :
           InProgress(e) => ~InProgress(o)
    /\ pc = "idle" => \A e \in Enables : ~InProgress(e)
    /\ \A e \in Enables : InProgress(e) =>
           /\ call = (IF e = "block2mem_dma_enable" THEN "read" ELSE "write")
           /\ pc \in {"read_cmd", "read_data", "read_dma",
                      "write_cmd", "write_stop", "write_dma"}

\* A write is waiting for its DMA engine while the enable of the read engine,
\* left by an earlier read, is still 1.
C17_Witness ==
    /\ pc = "write_dma"
    /\ InProgress("mem2block_dma_enable")
    /\ regs["block2mem_dma_enable"] = 1
    /\ regs["block2mem_dma_done"] = 1


\* ---------------------------------------------------------------------------
\* The two bounded loops of the bring-up.

\* The last access of t.
Last(t) == t[Len(t)]

\* t ends with a command that completed with a result other than Ok.
EndsFailed(t) ==
    t # <<>> /\ IsRead(Last(t), "cmd_event") /\ Last(t)[3] # SD_OK

\* t ends with a command that completed Ok.
EndsOk(t) == t # <<>> /\ Last(t) = R("cmd_event", SD_OK)

\* t ends with an ACMD41 that completed Ok with bit 31 of word 3 set.
EndsReady(t) ==
    /\ Len(t) >= 2
    /\ IsRead(Last(t), "cmd_response")
    /\ Bit(Last(t)[3][1], 15) = 1
    /\ t[Len(t) - 1] = R("cmd_event", SD_OK)

\* The commands sent in the step are exactly one, of index n.
SendsNext(n) ==
    /\ Len(Commands(trace')) = Len(Commands(trace)) + 1
    /\ IsCmd(Last(Commands(trace')), n)

\* The step returns from the bring-up not ready, with no further access.
ReturnsNotReady ==
    /\ pc' = "idle" /\ initret' = 0
    /\ ret' = STA_NOINIT /\ sdcardstatus' = STA_NOINIT
    /\ trace' = trace

\* C18: each of the two loops of the bring-up (ToggleAndIdle: idle-clock
\* pulse then GO_IDLE; NegotiateOCR: APP_CMD(0) then ACMD41, successful only
\* when ACMD41 is Ok and bit 31 of response word 3 is set) makes at most 1000
\* attempts; a failed attempt before the 1000th is followed by another attempt;
\* the first successful attempt, the 1000th included, leaves the loop and the
\* next command (CMD8, CMD2) is sent; and the bring-up returns not ready, with
\* no later command, exactly when the 1000th attempt has failed too.
C18_BoundedRetries ==
    [][ /\ pc \in {"go_idle", "app_cmd_0", "app_send_op_cond"} =>
              attempts \in 1 .. 1000 /\ timeout = 1001 - attempts
        /\ pc = "go_idle" =>
              \/ /\ pc' = "go_idle"
                 /\ attempts < 1000 /\ attempts' = attempts + 1
                 /\ Commands(trace') = Commands(trace)
              \/ /\ pc' = "toggle_chk" /\ attempts' = attempts
                 /\ \/ EndsOk(trace') /\ timeout' = timeout
                    \/ EndsFailed(trace') /\ attempts = 1000 /\ timeout' = 0
        /\ pc = "toggle_chk" =>
              /\ attempts \in 1 .. 1000
              /\ timeout = 0 <=> (attempts = 1000 /\ EndsFailed(trace))
              /\ timeout # 0 <=> EndsOk(trace)
              /\ IF timeout = 0 THEN ReturnsNotReady
                 ELSE pc' = "send_ext_csd" /\ SendsNext(8)
        /\ pc = "app_cmd_0" =>
              /\ pc' = "app_send_op_cond" /\ SendsNext(41)
              /\ attempts' = attempts /\ timeout' = timeout
        /\ pc = "app_send_op_cond" =>
              \/ /\ pc' = "app_cmd_0"
                 /\ attempts < 1000 /\ attempts' = attempts + 1
                 /\ IsCmdArg(Last(Commands(trace')), 55, U32(0))
                 /\ Len(Commands(trace')) = Len(Commands(trace)) - 1
              \/ /\ pc' = "ocr_chk" /\ attempts' = attempts
                 /\ \/ EndsReady(trace') /\ timeout' = timeout
                    \/ /\ ~EndsReady(trace')
                       /\ attempts = 1000 /\ timeout' = 0
        /\ pc = "ocr_chk" =>
              /\ attempts \in 1 .. 1000
              /\ timeout = 0 <=> (attempts = 1000 /\ ~EndsReady(trace))
              /\ IF timeout = 0 THEN ReturnsNotReady
                 ELSE pc' = "all_send_cid" /\ SendsNext(2)
      ]_vars

\* The 1000th attempt of NegotiateOCR has succeeded and the loop is left with
\* the budget not exhausted.
C18_Witness ==
    /\ pc = "ocr_chk" /\ attempts = 1000 /\ timeout = 1
    /\ EndsReady(trace)


\* ---------------------------------------------------------------------------
\* The commands sent until accepted.

\* The polls of the commands that are re-sent until Ok, with the index of
\* the command each waits for.
ResentAt ==
    [switch_cmd |-> {6}, send_scr_cmd |-> {51},
     read_cmd |-> {17, 18}, write_cmd |-> {24, 25}]

\* C19: at the poll of a read or write block command, of SWITCH_FUNC or of
\* APP_SEND_SCR, the last access was the sending of that command, and every
\* step either finds it Ok and goes on, or (Timeout or CrcError) sends the same
\* command with the same argument again and waits at the same poll: nothing
\* else is written, the DMA registers and the transfer's position are as they
\* were, and nothing is returned.  So while every attempt fails the call stays
\* at that poll and neither returns nor reports an error.
C19_ResendUntilOk ==
    [][ (pc \in DOMAIN ResentAt) =>
          /\ IsWrite(Last(trace), "cmd_send")
          /\ Last(Commands(trace))[2] \in ResentAt[pc]
          /\ ret = -1 /\ initret = -1
          /\ \/ /\ pc' \notin {pc, "idle"}
                /\ Len(trace') > Len(trace)
                /\ SubSeq(trace', 1, Len(trace) + 1)
                       = Append(trace, R("cmd_event", SD_OK))
             \/ /\ pc' = pc
                /\ retried'
                /\ trace' = trace
                /\ regs' = regs /\ xfer' = xfer
                /\ ret' = -1 /\ initret' = -1
                /\ sdcardstatus' = sdcardstatus
      ]_vars

\* A multi-block write command of the first iteration has been sent again
\* after an attempt that was not Ok.
C19_Witness ==
    /\ pc = "write_cmd" /\ call = "write"
    /\ retried
    /\ xfer.count = args.count /\ xfer.nblocks > 1
    /\ Last(Commands(trace))[2] = 25


\* ---------------------------------------------------------------------------
\* Transfers under hardware that answers.

\* sdcard_read and sdcard_write called in any order, from any status.
XferNext ==
    \/ CallRead \/ CallWrite
    \/ ReadCmdDone \/ ReadDataDone \/ ReadDmaDone \/ ReadStopDone
    \/ WriteCmdDone \/ WriteStopDone \/ WriteDmaDone
    \/ PollBusy

\* The hardware answers: every block command is in the end accepted with Ok,
\* every STOP_TRANSMISSION and every data phase in the end completes, and
\* every enabled DMA engine in the end sets its done flag.
HardwareAnswers ==
    /\ WF_vars(ReadCmdDone /\ pc' # pc)
    /\ WF_vars(ReadDataDone)
    /\ WF_vars(ReadDmaDone)
    /\ WF_vars(ReadStopDone)
    /\ WF_vars(WriteCmdDone /\ pc' # pc)
    /\ WF_vars(WriteStopDone)
    /\ WF_vars(WriteDmaDone)

\* The states the driver starts in with a command engine that raises its
\* completion flag in the end.
FairInit == Init /\ card # "silent"

FairSpec == FairInit /\ [][XferNext]_vars /\ HardwareAnswers

\* A transfer is under way.
XferRunning == call \in {"read", "write"} /\ pc # "idle"

\* The transfer has returned with nothing left, its iterations' commands
\* covering the count blocks from the start block on, one after the other.
XferComplete ==
    /\ XferReturned
    /\ xfer.count = 0
    /\ LET it == Iterations(trace, IF call = "read" THEN "block2mem_dma_length"
                                   ELSE "mem2block_dma_length")
       IN  /\ BlocksIn(it, Len(it)) = args.count
           /\ \A k \in 1 .. Len(it) :
                 it[k].addr = U32(args.block + BlocksIn(it, k - 1))

\* C20: when every command in the end raises its completion flag, every
\* block command is in the end accepted with Ok, every data phase in the end
\* completes and every enabled DMA engine in the end sets its done flag,
\* every sdcard_read and sdcard_write in the end returns, with the remaining
\* count 0 and all count blocks covered by the commands it sent.
C20_TransferTerminates == XferRunning ~> XferComplete

\* A write of MaxCount blocks, sent one block at a time with an attempt
\* repeated on the way, has returned complete.
C20_Witness ==
    /\ XferComplete /\ call = "write" /\ ~cfg.cmd25
    /\ args.count = MaxCount /\ retried
    /\ args.block = 100


\* ---------------------------------------------------------------------------
\* Transfers of many blocks in one chunk.

\* Block counts around 2^23, where 512 * nblocks reaches 2^32, and the largest
\* count TLC's integers hold; 2 for a chunk of more than one block that is
\* far from it.
WideCounts == {2, 8388607, 8388608, 8388609, 2147483647}

\* sd_disk_read and sdcard_read with SDCARD_CMD18_SUPPORT, called with a
\* large count, up to the first poll.
CallReadWide ==
    /\ cfg.cmd18
    /\ CallFrame("read")
    /\ timeout' = 0 /\ attempts' = 0 /\ rca' = 0
    /\ \E drv \in Drives, block \in Blocks, count \in WideCounts, buf \in Bufs :
        /\ args' = [drv |-> drv, block |-> block, count |-> count, buf |-> buf]
        /\ ReadLoop(<<>>, <<>>,
                    [block |-> U32(block), count |-> count, buf |-> buf, nblocks |-> 0])
    /\ UNCHANGED sdcardstatus

\* sdcard_write with SDCARD_CMD25_SUPPORT, called with a large count, up to
\* the first poll.
CallWriteWide ==
    /\ cfg.cmd25
    /\ CallFrame("write")
    /\ timeout' = 0 /\ attempts' = 0 /\ rca' = 0
    /\ \E block \in Blocks, count \in WideCounts, buf \in Bufs :
        /\ args' = [drv |-> 0, block |-> block, count |-> count, buf |-> buf]
        /\ WriteLoop(<<>>, <<>>,
                     [block |-> U32(block), count |-> count, buf |-> buf, nblocks |-> 0])
    /\ UNCHANGED sdcardstatus

WideNext ==
    \/ CallReadWide \/ CallWriteWide
    \/ ReadCmdDone \/ ReadDataDone \/ ReadDmaDone \/ ReadStopDone
    \/ WriteCmdDone \/ WriteStopDone \/ WriteDmaDone
    \/ PollBusy

WideSpec == Init /\ [][WideNext]_vars

\* The word len is 512 times the word n, the product being below 2^32:
\* with n = n[1] * 2^16 + n[2], 512 * n = (n[1] * 512 + n[2] \div 128) * 2^16
\* + (n[2] % 128) * 512, which is below 2^32 exactly when n[1] < 128.
Times512(n, len) ==
    /\ n[1] < 128
    /\ len = <<n[1] * 512 + (n[2] \div 128), (n[2] % 128) * 512>>

\* C21 as stated: in every chunk of a read or write, the byte length written
\* to the DMA length register is 512 times the value written to the block
\* count register for the chunk's command, without 32-bit wrap-around.
C21_AsStated ==
    call \in {"read", "write"} =>
        LET it == Iterations(trace, IF call = "read" THEN "block2mem_dma_length"
                                    ELSE "mem2block_dma_length")
        IN  \A k \in 1 .. Len(it) : Times512(it[k].nblocks, it[k].length)

\* What the chunks of a call satisfy whatever the count: the length written
\* is 512 times the block count modulo 2^32.
C21_LengthModulo ==
    call \in {"read", "write"} =>
        LET it == Iterations(trace, IF call = "read" THEN "block2mem_dma_length"
                                    ELSE "mem2block_dma_length")
        IN  \A k \in 1 .. Len(it) :
               it[k].length = <<(it[k].nblocks[1] * 512 + (it[k].nblocks[2] \div 128)) % Half,
                                (it[k].nblocks[2] % 128) * 512>>

====
